---- MODULE Spec2Model ----
(***************************************************************************)
(* Sandbox lifecycle of the worktree backend.                              *)
(*                                                                         *)
(* Part I  models WorktreeSandboxService (worktree_sandbox_service.py):    *)
(*         the module-global registry _worktrees, the workspace            *)
(*         directories under base_working_dir, the worker processes and    *)
(*         the TCP ports they bind, with start_sandbox split at its await  *)
(*         points so that calls for different ids interleave.              *)
(* Part II models one WorktreeRuntime (worktree_runtime.py): connect,      *)
(*         pause, resume and close over its worktree directory and its     *)
(*         server process.                                                 *)
(***************************************************************************)
EXTENDS Integers, FiniteSets, Sequences, TLC

None == "None"

(***************************************************************************)
(* Part I: WorktreeSandboxService                                          *)
(***************************************************************************)

\* Sandbox ids handed to the service, and the session keys and spec ids of
\* the calls.  "nospec" is a sandbox_spec_id the spec service does not know.
Ids == {"s1", "s2"}
Keys == {"k1", "k2"}
\* The key the callers of SvcSpec pass for an id.
KeysFor(i) == IF i = "s1" THEN {"k1"} ELSE {"k2"}
KnownSpecs == {"spec"}
SpecIds == KnownSpecs \cup {"nospec"}

\* base_port (the injector's default) and the width of the scanned range,
\* which is 10000 in the code and scaled down here.
BasePort == 8000
PortSpan == 2
Ports == BasePort .. (BasePort + PortSpan - 1)

\* Worker processes the service may spawn in one run; pids are handed out
\* in order and never reused.
MaxSpawn == 2
Pids == 1 .. MaxSpawn

\* Polling iterations of _wait_for_server_ready before its budget
\* (timeout=30 with a sleep of 1 per iteration) is used up.
ReadyTimeout == 2

VARIABLES
    worktrees,  \* _worktrees: the dict sandbox id -> WorktreeInfo
    dirs,       \* sandbox ids whose directory base_working_dir/<id> exists
    pstate,     \* pid -> "unborn" | "running" | "listening" | "exited" (not
                \*        yet waited for by the service) | "reaped"
    pport,      \* pid -> the --port a live worker was started with, else 0
    extPorts,   \* ports of the range bound by processes of other programs
    nextPid,    \* the pid the next Popen gets
    calls,      \* sandbox id -> the start_sandbox call in flight for it
    last,       \* the call that ended in the step just taken, if one did
    wsFiles     \* the files under base_working_dir: location -> content

svcVars == <<worktrees, dirs, pstate, pport, extPorts, nextPid, calls, last,
             wsFiles>>

VARIABLES
    worktree_path,   \* self.worktree_path: None or the worktree's path
    server_info,     \* self._server_info: the pid of its process, 0 for None
    runtime_status,  \* the status given to set_runtime_status
    runtime_initialized, \* self._runtime_initialized
    wtDir,           \* the directory <base>/openhands-worktree-<sid> exists
    wtFiles,         \* files written into that directory
    rprocs,          \* server processes started by the runtime: pid -> state
    rnextPid,        \* the pid its next Popen gets
    attach_to_existing,  \* the constructor's flag
    keep_runtime_alive,  \* config.sandbox.keep_runtime_alive
    rtcall,          \* the connect or resume call in flight
    rtlast,          \* outcome of the latest finished call on the runtime
    paused_files     \* history: the files that were there at the latest pause

rtVars == <<worktree_path, server_info, runtime_status, runtime_initialized,
            wtDir, wtFiles, rprocs, rnextPid, attach_to_existing,
            keep_runtime_alive, rtcall, rtlast, paused_files>>

vars == <<svcVars, rtVars>>

----------------------------------------------------------------------------
\* A process is alive from its spawn to its exit.
Alive(p) == pstate[p] \in {"running", "listening"}

\* bind(('', port)) succeeds: nothing listens on the port.
CanBind(port) ==
    /\ port \notin extPorts
    /\ \A p \in Pids : ~(pstate[p] = "listening" /\ pport[p] = port)

Min(S) == CHOOSE x \in S : \A y \in S : x <= y

\* The while loop of _find_unused_port from `port` on: the first port
\* below base_port + <span> that binds; 0 stands for the SandboxError('No
\* available ports found') raised after the loop.
RECURSIVE scan_ports(_)
scan_ports(port) ==
    IF ~(port < BasePort + PortSpan) THEN 0
    ELSE IF CanBind(port) THEN port
    ELSE scan_ports(port + 1)

\* The scan begun one port too high.
find_unused_port_skipping_base == scan_ports(BasePort + 1)

\* _find_unused_port: port = self.base_port, then the loop.
find_unused_port == scan_ports(BasePort)

\* What GET http://localhost:<port>/alive can give: an exception when
\* nothing listens, otherwise a status from whichever server holds the port.
Responses(port) ==
    IF CanBind(port) THEN {"refused"} ELSE {"200", "503"}

\* psutil.Process(pid).is_running(): the pid is in the process table.  A
\* worker is a child of the service (subprocess.Popen), so after its exit
\* it stays there as a zombie, for which is_running() is True, until the
\* service waits for it; from then on psutil raises NoSuchProcess.
is_running(p) == pstate[p] \in {"running", "listening", "exited"}

\* _get_sandbox_status: RUNNING if is_running(), STOPPED otherwise and on
\* NoSuchProcess / AccessDenied.
get_sandbox_status(info) ==
    IF is_running(info.pid) THEN "RUNNING" ELSE "STOPPED"

\* get_sandbox: None for an id without a record.
Registered(i) == i \in DOMAIN worktrees

\* del _worktrees[sandbox_id] and _worktrees[sandbox_id] = info.
DictDel(d, k) == [j \in DOMAIN d \ {k} |-> d[j]]
DictSet(d, k, v) == [j \in DOMAIN d \cup {k} |-> IF j = k THEN v ELSE d[j]]

get_sandbox(i) ==
    IF ~Registered(i) THEN None
    ELSE [id |-> i, status |-> get_sandbox_status(worktrees[i]),
          sandbox_spec_id |-> worktrees[i].sandbox_spec_id]

\* list_sandboxes: one item per record of the registry.
list_sandboxes == {get_sandbox(i) : i \in DOMAIN worktrees}

\* The start_sandbox call in flight for an id: where it stands, the port
\* and pid it chose, its arguments, the polls its wait has made, whether
\* the id had a record when it began and (history) whether its worker
\* found the chosen port taken when it came to bind it.
IdleCall == [pc |-> "idle", port |-> 0, pid |-> 0, key |-> None,
             spec |-> None, elapsed |-> 0, wasReg |-> FALSE,
             raced |-> FALSE]

\* What a caller sees when its call ends: the operation, the id it was
\* called with, "returned"/"True" or "raised" with the step that raised,
\* the pid the call spawned (start) or addressed (delete), whether the id
\* had a record when the call began, and the polls of the readiness wait
\* that failed before the call ended.
NoCall == [id |-> None, op |-> "none", res |-> "none", stage |-> "none",
           pid |-> 0, wasReg |-> FALSE, polls |-> 0]

SvcInit ==
    /\ worktrees = <<>>
    /\ dirs = {}
    /\ pstate = [p \in Pids |-> "unborn"]
    /\ pport = [p \in Pids |-> 0]
    /\ extPorts = {}
    /\ nextPid = 1
    /\ calls = [i \in Ids |-> IdleCall]
    /\ last = NoCall
    /\ wsFiles = <<>>

----------------------------------------------------------------------------
\* The workspace directory a location lies in: its first component under
\* base_working_dir.
WorkspaceOf(loc) == loc[1]

\* shutil.rmtree(worktree_path, ignore_errors=True), as the files left.
rmtree(path) ==
    [loc \in {l \in DOMAIN wsFiles : WorkspaceOf(l) # path} |-> wsFiles[loc]]

\* The body of delete_sandbox for an id (also run by start_sandbox when the
\* readiness wait fails).  stuck: the worker is alive and terminate/kill do
\* not end it in time (psutil.TimeoutExpired from the wait after kill, or
\* psutil.AccessDenied), which takes the handler's except branch: the
\* record is dropped and the directory is not touched.  Otherwise the wait
\* after terminate (or NoSuchProcess) leaves the pid ended and waited for.
delete_sandbox_keeps_record(i, stuck) ==
    IF ~Registered(i)
    THEN UNCHANGED <<worktrees, dirs, pstate, pport, wsFiles>>
    ELSE LET info == worktrees[i] IN
    IF Alive(info.pid) /\ stuck
    THEN UNCHANGED <<worktrees, dirs, pstate, pport, wsFiles>>
    ELSE /\ pstate' = [pstate EXCEPT ![info.pid] = "reaped"]
         /\ pport' = [pport EXCEPT ![info.pid] = 0]
         /\ dirs' = dirs \ {info.worktree_path}
         /\ wsFiles' = rmtree(info.worktree_path)
         /\ worktrees' = DictDel(worktrees, i)

\* delete_sandbox that removes base_working_dir instead of the directory
\* of the record.
delete_sandbox_removing_base(i, stuck) ==
    IF ~Registered(i)
    THEN UNCHANGED <<worktrees, dirs, pstate, pport, wsFiles>>
    ELSE LET info == worktrees[i] IN
    IF Alive(info.pid) /\ stuck
    THEN /\ worktrees' = DictDel(worktrees, i)
         /\ UNCHANGED <<dirs, pstate, pport, wsFiles>>
    ELSE /\ pstate' = [pstate EXCEPT ![info.pid] = "reaped"]
         /\ pport' = [pport EXCEPT ![info.pid] = 0]
         /\ dirs' = {}
         /\ wsFiles' = <<>>
         /\ worktrees' = DictDel(worktrees, i)

delete_sandbox_body(i, stuck) ==
    IF ~Registered(i)
    THEN UNCHANGED <<worktrees, dirs, pstate, pport, wsFiles>>
    ELSE LET info == worktrees[i] IN
    IF Alive(info.pid) /\ stuck
    THEN /\ worktrees' = DictDel(worktrees, i)
         /\ UNCHANGED <<dirs, pstate, pport, wsFiles>>
    ELSE /\ pstate' = [pstate EXCEPT ![info.pid] = "reaped"]
         /\ pport' = [pport EXCEPT ![info.pid] = 0]
         /\ dirs' = dirs \ {info.worktree_path}
         /\ wsFiles' = rmtree(info.worktree_path)
         /\ worktrees' = DictDel(worktrees, i)

\* What delete_sandbox gives its caller on each of its three paths: the
\* absent id, the except branch and the normal end.
delete_sandbox_returns(i, stuck) ==
    IF ~Registered(i) THEN "True"
    ELSE IF Alive(worktrees[i].pid) /\ stuck THEN "True"
    ELSE "True"

\* delete_sandbox(sandbox_id): no await inside, so one step.
delete_sandbox(i, stuck) ==
    /\ calls[i].pc = "idle"
    /\ delete_sandbox_body(i, stuck)
    /\ last' = [id |-> i, op |-> "delete",
                res |-> delete_sandbox_returns(i, stuck), stage |-> "none",
                pid |-> IF Registered(i) THEN worktrees[i].pid ELSE 0,
                wasReg |-> Registered(i), polls |-> 0]
    /\ UNCHANGED <<extPorts, nextPid, calls, rtVars>>

\* What constructing a Popen does first (subprocess._cleanup): it waits
\* for the exited children whose Popen object was dropped while they ran,
\* which are those of the start_sandbox calls that have ended.
popen_cleanup ==
    [p \in Pids |->
        IF pstate[p] = "exited" /\ \A j \in Ids : calls[j].pid # p
        THEN "reaped" ELSE pstate[p]]

\* The Popen object of a call goes away with the call: a worker found
\* exited then is waited for, a running one is left to popen_cleanup.
popen_dropped(p) ==
    [pstate EXCEPT ![p] = IF @ = "exited" THEN "reaped" ELSE @]

Raised(i, stage, pid) ==
    [id |-> i, op |-> "start", res |-> "raised", stage |-> stage,
     pid |-> pid, wasReg |-> calls[i].wasReg, polls |-> calls[i].elapsed]

\* start_sandbox up to its first suspension: spec lookup, _find_unused_port,
\* _create_worktree_directory and the Popen of _start_worktree_process.
\* mkdirOk / popenOk: whether os.makedirs and subprocess.Popen succeed.
start_sandbox_begin(i, spec, key, mkdirOk, popenOk) ==
    LET port == find_unused_port
        reg  == Registered(i)
        fail(stage) == [id |-> i, op |-> "start", res |-> "raised",
                        stage |-> stage, pid |-> 0, wasReg |-> reg,
                        polls |-> 0]
    IN
    /\ calls[i].pc = "idle"
    /\ nextPid <= MaxSpawn
    /\ IF spec \notin KnownSpecs
       THEN /\ last' = fail("spec")
            /\ UNCHANGED <<dirs, pstate, pport, nextPid, calls>>
       ELSE IF port = 0
       THEN /\ last' = fail("port")
            /\ UNCHANGED <<dirs, pstate, pport, nextPid, calls>>
       ELSE IF i \notin dirs /\ ~mkdirOk
       THEN /\ last' = fail("mkdir")
            /\ UNCHANGED <<dirs, pstate, pport, nextPid, calls>>
       ELSE IF ~popenOk
       THEN /\ dirs' = dirs \cup {i}
            /\ pstate' = popen_cleanup
            /\ last' = fail("spawn")
            /\ UNCHANGED <<pport, nextPid, calls>>
       ELSE /\ dirs' = dirs \cup {i}
            /\ pstate' = [popen_cleanup EXCEPT ![nextPid] = "running"]
            /\ pport' = [pport EXCEPT ![nextPid] = port]
            /\ nextPid' = nextPid + 1
            /\ calls' = [calls EXCEPT ![i] =
                            [pc |-> "sleeping", port |-> port,
                             pid |-> nextPid, key |-> key, spec |-> spec,
                             elapsed |-> 0, wasReg |-> reg,
                             raced |-> FALSE]]
            /\ last' = NoCall
    /\ UNCHANGED <<worktrees, extPorts, wsFiles, rtVars>>

\* After asyncio.sleep(2): process.poll(), which waits for a worker that
\* has exited, decides between SandboxError and the registration of the
\* WorktreeInfo, after which the wait begins.
start_sandbox_after_sleep(i) ==
    LET c == calls[i] IN
    /\ c.pc = "sleeping"
    /\ IF ~Alive(c.pid)
       THEN /\ last' = Raised(i, "early_exit", c.pid)
            /\ calls' = [calls EXCEPT ![i] = IdleCall]
            /\ pstate' = [pstate EXCEPT ![c.pid] = "reaped"]
            /\ UNCHANGED worktrees
       ELSE /\ worktrees' = DictSet(worktrees, i,
                                [pid |-> c.pid, port |-> c.port,
                                 worktree_path |-> i,
                                 session_api_key |-> c.key,
                                 sandbox_spec_id |-> c.spec])
            /\ calls' = [calls EXCEPT ![i].pc = "waiting"]
            /\ last' = NoCall
            /\ UNCHANGED pstate
    /\ UNCHANGED <<dirs, pport, extPorts, nextPid, wsFiles, rtVars>>

\* start_sandbox_poll with the exception of the GET let through instead of
\* swallowed: a refused connection ends the wait as its timeout does.
start_sandbox_poll_raising_on_refused(i, resp, stuck) ==
    LET c == calls[i] IN
    /\ c.pc = "waiting"
    /\ IF c.elapsed >= ReadyTimeout \/ resp = "refused"
       THEN /\ delete_sandbox_body(i, stuck)
            /\ last' = Raised(i, "ready", c.pid)
            /\ calls' = [calls EXCEPT ![i] = IdleCall]
       ELSE /\ resp \in Responses(c.port)
            /\ IF resp = "200"
               THEN /\ last' = [id |-> i, op |-> "start",
                                res |-> "returned", stage |-> "none",
                                pid |-> c.pid, wasReg |-> c.wasReg,
                                polls |-> c.elapsed]
                    /\ calls' = [calls EXCEPT ![i] = IdleCall]
                    /\ pstate' = popen_dropped(c.pid)
               ELSE /\ calls' = [calls EXCEPT ![i].elapsed = @ + 1]
                    /\ last' = NoCall
                    /\ UNCHANGED pstate
            /\ UNCHANGED <<worktrees, dirs, pport, wsFiles>>
    /\ UNCHANGED <<extPorts, nextPid, rtVars>>

\* start_sandbox_poll with the delete_sandbox call of the failure path left
\* out: the error is raised with the record still in the registry.
start_sandbox_poll_no_cleanup(i, resp, stuck) ==
    LET c == calls[i] IN
    /\ c.pc = "waiting"
    /\ IF c.elapsed >= ReadyTimeout
       THEN /\ last' = Raised(i, "ready", c.pid)
            /\ calls' = [calls EXCEPT ![i] = IdleCall]
            /\ pstate' = popen_dropped(c.pid)
       ELSE /\ resp \in Responses(c.port)
            /\ IF resp = "200"
               THEN /\ last' = [id |-> i, op |-> "start",
                                res |-> "returned", stage |-> "none",
                                pid |-> c.pid, wasReg |-> c.wasReg,
                                polls |-> c.elapsed]
                    /\ calls' = [calls EXCEPT ![i] = IdleCall]
                    /\ pstate' = popen_dropped(c.pid)
               ELSE /\ calls' = [calls EXCEPT ![i].elapsed = @ + 1]
                    /\ last' = NoCall
                    /\ UNCHANGED pstate
    /\ UNCHANGED <<worktrees, dirs, pport, wsFiles>>
    /\ UNCHANGED <<extPorts, nextPid, rtVars>>

\* One iteration of _wait_for_server_ready and what start_sandbox does with
\* its result: 200 -> the SandboxInfo is returned; budget used up ->
\* delete_sandbox, then SandboxError; otherwise sleep(1) and poll again.
start_sandbox_poll(i, resp, stuck) ==
    LET c == calls[i] IN
    /\ c.pc = "waiting"
    /\ IF c.elapsed >= ReadyTimeout
       THEN /\ delete_sandbox_body(i, stuck)
            /\ last' = Raised(i, "ready", c.pid)
            /\ calls' = [calls EXCEPT ![i] = IdleCall]
       ELSE /\ resp \in Responses(c.port)
            /\ IF resp = "200"
               THEN /\ last' = [id |-> i, op |-> "start",
                                res |-> "returned", stage |-> "none",
                                pid |-> c.pid, wasReg |-> c.wasReg,
                                polls |-> c.elapsed]
                    /\ calls' = [calls EXCEPT ![i] = IdleCall]
                    /\ pstate' = popen_dropped(c.pid)
               ELSE /\ calls' = [calls EXCEPT ![i].elapsed = @ + 1]
                    /\ last' = NoCall
                    /\ UNCHANGED pstate
            /\ UNCHANGED <<worktrees, dirs, pport, wsFiles>>
    /\ UNCHANGED <<extPorts, nextPid, rtVars>>

\* The worker binds the port it was given: it listens, or exits when the
\* port has been taken since the probe of _find_unused_port.
worker_bind(p) ==
    /\ pstate[p] = "running"
    /\ pstate' = [pstate EXCEPT ![p] =
                     IF CanBind(pport[p]) THEN "listening" ELSE "exited"]
    /\ pport' = [pport EXCEPT ![p] = IF CanBind(pport[p]) THEN @ ELSE 0]
    /\ calls' = [i \in Ids |->
                    IF calls[i].pid = p /\ ~CanBind(pport[p])
                    THEN [calls[i] EXCEPT !.raced = TRUE]
                    ELSE calls[i]]
    /\ last' = NoCall
    /\ UNCHANGED <<worktrees, dirs, extPorts, nextPid, wsFiles, rtVars>>

\* A worker exits on its own or is killed from outside the service.
worker_exit(p) ==
    /\ Alive(p)
    /\ pstate' = [pstate EXCEPT ![p] = "exited"]
    /\ pport' = [pport EXCEPT ![p] = 0]
    /\ last' = NoCall
    /\ UNCHANGED <<worktrees, dirs, extPorts, nextPid, calls, wsFiles,
                   rtVars>>

\* Another program binds, or releases, a port of the scanned range (it
\* holds one port at a time).
ext_bind(port) ==
    /\ extPorts = {}
    /\ CanBind(port)
    /\ extPorts' = extPorts \cup {port}
    /\ last' = NoCall
    /\ UNCHANGED <<worktrees, dirs, pstate, pport, nextPid, calls, wsFiles,
                   rtVars>>

ext_release(port) ==
    /\ port \in extPorts
    /\ extPorts' = extPorts \ {port}
    /\ last' = NoCall
    /\ UNCHANGED <<worktrees, dirs, pstate, pport, nextPid, calls, wsFiles,
                   rtVars>>

----------------------------------------------------------------------------
\* The `path` arguments of read_file and write_file, as their components
\* (a file of the workspace, and one reached through the parent
\* directory), the contents written and the commands asked for.
FilePaths == {<<"a.txt">>, <<"..", "s2", "a.txt">>}
Bytes == {"", "data"}
Commands == {"ls"}

\* The file a path names once the operating system has resolved it from
\* the directory `loc`: ".." leaves the directory reached so far.
RECURSIVE walk(_, _)
walk(loc, comps) ==
    IF comps = <<>> THEN loc
    ELSE IF Head(comps) = ".."
    THEN walk(SubSeq(loc, 1, Len(loc) - 1), Tail(comps))
    ELSE walk(Append(loc, Head(comps)), Tail(comps))

\* file_path = os.path.join(info.worktree_path, path), as the location
\* under base_working_dir that open() reaches with it.
file_path(wt, path) == walk(<<wt>>, path)

\* What the caller of read_file, write_file or execute_command sees: the
\* exception or "none", the bytes read or written, and whether the id had
\* a record and its workspace directory was there when the call began.
FsEvent(i, op, path, err, data) ==
    [id |-> i, op |-> op,
     res |-> IF err = "none" THEN "returned" ELSE "raised",
     stage |-> err, pid |-> 0, wasReg |-> Registered(i), polls |-> 0,
     path |-> path, data |-> data,
     hadDir |-> Registered(i) /\ worktrees[i].worktree_path \in dirs]

\* read_file, as what it gives: SandboxError without a record; otherwise
\* open(file_path, 'rb') raises FileNotFoundError when the file, or a
\* directory on the way to it, is not there, and else the content is read.
read_file_result(i, path) ==
    IF ~Registered(i) THEN [err |-> "SandboxError", data |-> None]
    ELSE LET wt  == worktrees[i].worktree_path
             loc == file_path(wt, path)
         IN  IF wt \in dirs /\ loc \in DOMAIN wsFiles
             THEN [err |-> "none", data |-> wsFiles[loc]]
             ELSE [err |-> "FileNotFoundError", data |-> None]

read_file(i, path) ==
    /\ last' = FsEvent(i, "read", path, read_file_result(i, path).err,
                       read_file_result(i, path).data)
    /\ UNCHANGED <<worktrees, dirs, pstate, pport, extPorts, nextPid, calls,
                   wsFiles, rtVars>>

\* write_file that opens the file and writes nothing into it.
write_file_without_content(i, path, content) ==
    /\ IF ~Registered(i)
       THEN /\ last' = FsEvent(i, "write", path, "SandboxError", None)
            /\ UNCHANGED <<dirs, wsFiles>>
       ELSE LET wt  == worktrees[i].worktree_path
                loc == file_path(wt, path)
            IN  /\ dirs' = dirs \cup {wt, WorkspaceOf(loc)}
                /\ wsFiles' = DictSet(wsFiles, loc, "")
                /\ last' = FsEvent(i, "write", path, "none", content)
    /\ UNCHANGED <<worktrees, pstate, pport, extPorts, nextPid, calls,
                   rtVars>>

\* write_file: SandboxError without a record; otherwise os.makedirs of the
\* directory of file_path with exist_ok=True, which makes every directory
\* on the way that is missing, and open(file_path, 'wb') with the write.
write_file(i, path, content) ==
    /\ IF ~Registered(i)
       THEN /\ last' = FsEvent(i, "write", path, "SandboxError", None)
            /\ UNCHANGED <<dirs, wsFiles>>
       ELSE LET wt  == worktrees[i].worktree_path
                loc == file_path(wt, path)
            IN  /\ dirs' = dirs \cup {wt, WorkspaceOf(loc)}
                /\ wsFiles' = DictSet(wsFiles, loc, content)
                /\ last' = FsEvent(i, "write", path, "none", content)
    /\ UNCHANGED <<worktrees, pstate, pport, extPorts, nextPid, calls,
                   rtVars>>

\* execute_command that runs the command in the workspace of a registered
\* sandbox, where it leaves a file.
execute_command_running(i, command) ==
    /\ IF ~Registered(i)
       THEN /\ last' = FsEvent(i, "execute", command, "SandboxError", None)
            /\ UNCHANGED wsFiles
       ELSE /\ last' = FsEvent(i, "execute", command, "none", None)
            /\ wsFiles' = IF worktrees[i].worktree_path \in dirs
                          THEN DictSet(wsFiles,
                                       <<worktrees[i].worktree_path, command>>,
                                       "")
                          ELSE wsFiles
    /\ UNCHANGED <<worktrees, dirs, pstate, pport, extPorts, nextPid, calls,
                   rtVars>>

\* execute_command: raise SandboxError('Command execution not supported
\* for worktree sandboxes'), whatever the arguments.
execute_command(i, command) ==
    /\ last' = FsEvent(i, "execute", command, "SandboxError", None)
    /\ UNCHANGED <<worktrees, dirs, pstate, pport, extPorts, nextPid, calls,
                   wsFiles, rtVars>>

\* pause_sandbox that stops the worker of a registered sandbox and says so.
pause_sandbox_stopping_worker(i) ==
    /\ last' = [id |-> i, op |-> "pause_sandbox",
                res |-> IF Registered(i) THEN "True" ELSE "False",
                stage |-> "none", pid |-> 0, wasReg |-> Registered(i),
                polls |-> 0]
    /\ pstate' = IF Registered(i) /\ Alive(worktrees[i].pid)
                 THEN [pstate EXCEPT ![worktrees[i].pid] = "reaped"]
                 ELSE pstate
    /\ UNCHANGED <<worktrees, dirs, pport, extPorts, nextPid, calls,
                   wsFiles, rtVars>>

\* pause_sandbox and resume_sandbox: return False.
pause_sandbox(i) ==
    /\ last' = [id |-> i, op |-> "pause_sandbox", res |-> "False",
                stage |-> "none", pid |-> 0, wasReg |-> Registered(i),
                polls |-> 0]
    /\ UNCHANGED <<worktrees, dirs, pstate, pport, extPorts, nextPid, calls,
                   wsFiles, rtVars>>

resume_sandbox(i) ==
    /\ last' = [id |-> i, op |-> "resume_sandbox", res |-> "False",
                stage |-> "none", pid |-> 0, wasReg |-> Registered(i),
                polls |-> 0]
    /\ UNCHANGED <<worktrees, dirs, pstate, pport, extPorts, nextPid, calls,
                   wsFiles, rtVars>>

\* The orders in which _worktrees.items() can give the records: the dict
\* keeps the order of insertion, which the registry of the model does not
\* record.
Orders == {<<"s1", "s2">>, <<"s2", "s1">>}

\* The loop of find_sandbox_by_session_api_key that returns the first
\* record it meets, whatever its key.
RECURSIVE find_sandbox_by_session_api_key_ignoring_key(_, _)
find_sandbox_by_session_api_key_ignoring_key(order, key) ==
    IF order = <<>> THEN {}
    ELSE IF Registered(Head(order))
    THEN {get_sandbox(Head(order))}
    ELSE find_sandbox_by_session_api_key_ignoring_key(Tail(order), key)

\* The loop of find_sandbox_by_session_api_key over the records in the
\* given order: get_sandbox of the first id whose record has the key, as
\* a set of one item, or no item for None.
RECURSIVE find_sandbox_by_session_api_key_result(_, _)
find_sandbox_by_session_api_key_result(order, key) ==
    IF order = <<>> THEN {}
    ELSE IF /\ Registered(Head(order))
            /\ worktrees[Head(order)].session_api_key = key
    THEN {get_sandbox(Head(order))}
    ELSE find_sandbox_by_session_api_key_result(Tail(order), key)

find_sandbox_by_session_api_key(order, key) ==
    /\ last' = [id |-> None, op |-> "find", res |-> "returned",
                stage |-> "none", pid |-> 0, wasReg |-> FALSE, polls |-> 0,
                key |-> key,
                found |-> find_sandbox_by_session_api_key_result(order, key)]
    /\ UNCHANGED <<worktrees, dirs, pstate, pport, extPorts, nextPid, calls,
                   wsFiles, rtVars>>

\* A workspace directory is removed, with what it holds, by something
\* other than the service.
workspace_removed(path) ==
    /\ path \in dirs
    /\ dirs' = dirs \ {path}
    /\ wsFiles' = rmtree(path)
    /\ last' = NoCall
    /\ UNCHANGED <<worktrees, pstate, pport, extPorts, nextPid, calls,
                   rtVars>>


(***************************************************************************)
(* Part II: WorktreeRuntime                                                *)
(***************************************************************************)

\* The one path _create_worktree derives for the runtime's sid:
\* <worktree base dir>/openhands-worktree-<sid>.
WorktreePath == "openhands-worktree-sid"

\* Files the server (or its user) may write into the worktree.
Files == {"f1", "f2"}

\* Server processes one runtime may start in a run.
MaxRtSpawn == 3
RPids == 1 .. MaxRtSpawn

\* Attempts wait_until_alive makes before tenacity's stop_after_delay(120)
\* with wait_fixed(2) ends the retrying (scaled down).
WaitAttempts == 2

RtIdleCall == [pc |-> "idle", elapsed |-> 0, started |-> 0, created |-> FALSE,
               hadProc |-> FALSE, hadDir |-> FALSE]

\* What the caller of the latest finished call saw: the exception ("none"
\* for a normal return), the attempts its wait_until_alive made, the pid
\* of a process the call started (0: none),
\* whether the call's `git worktree add` made the directory, and whether,
\* when the call began, the recorded server process was running and the
\* worktree directory was there.
RtNoCall == [op |-> "none", err |-> "none", attempts |-> 0,
             started |-> 0, created |-> FALSE,
             hadProc |-> FALSE, hadDir |-> FALSE]

NoSnap == [taken |-> FALSE, files |-> {}]

RtAlive(p) == p # 0 /\ rprocs[p] = "alive"

\* self._server_info.process.poll() is None
ServerRunning == server_info # 0 /\ rprocs[server_info] = "alive"

\* A fresh runtime object (__init__): no worktree_path, no _server_info.
\* The directory of its name may be left over from an earlier run.
RtFresh ==
    /\ worktree_path = None
    /\ server_info = 0
    /\ runtime_status = None
    /\ runtime_initialized = FALSE
    /\ wtFiles = {}
    /\ rprocs = [p \in RPids |-> "unborn"]
    /\ rnextPid = 1
    /\ rtcall = RtIdleCall
    /\ rtlast = RtNoCall
    /\ paused_files = NoSnap

RtInit ==
    /\ RtFresh
    /\ wtDir \in BOOLEAN
    /\ attach_to_existing \in BOOLEAN
    /\ keep_runtime_alive \in BOOLEAN

RtQuiet ==
    /\ RtFresh
    /\ wtDir = FALSE
    /\ attach_to_existing = FALSE
    /\ keep_runtime_alive = FALSE

----------------------------------------------------------------------------
\* _remove_worktree, as the existence of the directory after it: it returns
\* at once without a worktree_path or without the directory; otherwise git
\* worktree remove --force and shutil.rmtree take the directory away.
remove_worktree(path, dir) ==
    IF path = None \/ ~dir THEN dir ELSE FALSE

\* _stop_server, as the process table after it: the recorded process, if
\* still running, is terminated (killed after 5 s) and waited for.
stop_server(procs, info) ==
    IF info # 0 /\ procs[info] = "alive"
    THEN [procs EXCEPT ![info] = "exited"]
    ELSE procs

\* The except branch of connect: _stop_server(), _remove_worktree(), raise.
\* path, dir and files are self.worktree_path and the directory as they are
\* when the exception arrives; ev is what the caller then sees.
connect_cleanup(path, dir, files, ev) ==
    /\ rprocs' = stop_server(rprocs, server_info)
    /\ server_info' = 0
    /\ worktree_path' = path
    /\ wtDir' = remove_worktree(path, dir)
    /\ wtFiles' = IF remove_worktree(path, dir) THEN files ELSE {}
    /\ rtcall' = RtIdleCall
    /\ rtlast' = ev

\* connect up to the readiness wait: set_runtime_status, _create_worktree
\* (base repository check, removal of a directory already there, git
\* worktree add, the two git config calls) and _start_server (Popen).
\* initOk, addOk, cfgOk, popenOk: whether those external commands succeed;
\* git worktree add also fails on a directory that is still there.
connect_begin(initOk, addOk, cfgOk, popenOk) ==
    LET dir1  == IF wtDir THEN remove_worktree(worktree_path, wtDir)
                 ELSE FALSE
        files1 == IF dir1 THEN wtFiles ELSE {}
        added == addOk /\ ~dir1
        raised(created) ==
            [op |-> "connect", err |-> "AgentRuntimeError", attempts |-> 0,
             started |-> 0,
             created |-> created, hadProc |-> ServerRunning,
             hadDir |-> wtDir]
    IN
    /\ rtcall.pc = "idle"
    /\ rnextPid <= MaxRtSpawn
    /\ runtime_status' = "STARTING_RUNTIME"
    /\ paused_files' = NoSnap
    /\ IF ~initOk
       THEN /\ connect_cleanup(worktree_path, wtDir, wtFiles, raised(FALSE))
            /\ UNCHANGED <<rnextPid, runtime_initialized>>
       ELSE IF ~added
       THEN /\ connect_cleanup(worktree_path, dir1, files1, raised(FALSE))
            /\ UNCHANGED <<rnextPid, runtime_initialized>>
       ELSE IF ~cfgOk
       THEN /\ connect_cleanup(worktree_path, TRUE, {}, raised(TRUE))
            /\ UNCHANGED <<rnextPid, runtime_initialized>>
       ELSE IF ~popenOk
       THEN /\ connect_cleanup(WorktreePath, TRUE, {}, raised(TRUE))
            /\ UNCHANGED <<rnextPid, runtime_initialized>>
       ELSE /\ worktree_path' = WorktreePath
            /\ wtDir' = TRUE
            /\ wtFiles' = {}
            /\ rprocs' = [rprocs EXCEPT ![rnextPid] = "alive"]
            /\ server_info' = rnextPid
            /\ rnextPid' = rnextPid + 1
            /\ IF attach_to_existing
               THEN /\ runtime_initialized' = TRUE
                    /\ rtcall' = RtIdleCall
                    /\ rtlast' = [op |-> "connect", err |-> "none",
                                  attempts |-> 0,
                                  started |-> rnextPid, created |-> TRUE,
                                  hadProc |-> ServerRunning,
                                  hadDir |-> wtDir]
               ELSE /\ rtcall' = [pc |-> "connect_wait", elapsed |-> 0,
                                  started |-> rnextPid, created |-> TRUE,
                                  hadProc |-> ServerRunning,
                                  hadDir |-> wtDir]
                    /\ rtlast' = RtNoCall
                    /\ UNCHANGED runtime_initialized
    /\ UNCHANGED <<attach_to_existing, keep_runtime_alive, svcVars>>

\* One attempt of wait_until_alive under its tenacity policy, and what the
\* caller does with the outcome.  resp: what check_if_alive meets, success,
\* a connection error (retried) or any other exception (raised at once).
\* For connect a success is followed by setup_initial_env (envOk) and the
\* READY status; a failure by the cleanup.  resume lets the failure pass.
wait_outcome_without_poll(resp, elapsed) ==
    IF resp = "ok" THEN "alive"
    ELSE IF resp = "http_error" THEN "HTTPStatusError"
    ELSE IF elapsed + 1 >= WaitAttempts THEN "ConnectError"
    ELSE "retry"

wait_outcome(resp, elapsed) ==
    IF ~ServerRunning THEN "AgentRuntimeDisconnectedError"
    ELSE IF resp = "ok" THEN "alive"
    ELSE IF resp = "http_error" THEN "HTTPStatusError"
    ELSE IF elapsed + 1 >= WaitAttempts THEN "ConnectError"
    ELSE "retry"

\* wait_attempt with the READY status set as soon as the server answers,
\* before setup_initial_env has run.
wait_attempt_ready_before_setup(resp, envOk) ==
    LET out == wait_outcome(resp, rtcall.elapsed)
        ev(op, err) == [op |-> op, err |-> err,
                        attempts |-> rtcall.elapsed + 1,
                        started |-> rtcall.started,
                        created |-> rtcall.created,
                        hadProc |-> rtcall.hadProc, hadDir |-> rtcall.hadDir]
    IN
    /\ rtcall.pc \in {"connect_wait", "resume_wait"}
    /\ IF out = "retry"
       THEN /\ rtcall' = [rtcall EXCEPT !.elapsed = @ + 1]
            /\ UNCHANGED <<worktree_path, server_info, runtime_status,
                           runtime_initialized, wtDir, wtFiles, rprocs,
                           rtlast>>
       ELSE IF rtcall.pc = "resume_wait"
       THEN /\ rtcall' = RtIdleCall
            /\ rtlast' = ev("resume", IF out = "alive" THEN "none" ELSE out)
            /\ UNCHANGED <<worktree_path, server_info, runtime_status,
                           runtime_initialized, wtDir, wtFiles, rprocs>>
       ELSE IF out = "alive" /\ envOk
       THEN /\ runtime_status' = "READY"
            /\ runtime_initialized' = TRUE
            /\ rtcall' = RtIdleCall
            /\ rtlast' = ev("connect", "none")
            /\ UNCHANGED <<worktree_path, server_info, wtDir, wtFiles,
                           rprocs>>
       ELSE /\ connect_cleanup(worktree_path, wtDir, wtFiles,
                               ev("connect", IF out = "alive"
                                             THEN "SetupError" ELSE out))
            /\ runtime_status' = IF out = "alive" THEN "READY"
                                 ELSE runtime_status
            /\ UNCHANGED runtime_initialized
    /\ UNCHANGED <<rnextPid, attach_to_existing, keep_runtime_alive,
                   paused_files, svcVars>>

wait_attempt(resp, envOk) ==
    LET out == wait_outcome(resp, rtcall.elapsed)
        ev(op, err) == [op |-> op, err |-> err,
                        attempts |-> rtcall.elapsed + 1,
                        started |-> rtcall.started,
                        created |-> rtcall.created,
                        hadProc |-> rtcall.hadProc, hadDir |-> rtcall.hadDir]
    IN
    /\ rtcall.pc \in {"connect_wait", "resume_wait"}
    /\ IF out = "retry"
       THEN /\ rtcall' = [rtcall EXCEPT !.elapsed = @ + 1]
            /\ UNCHANGED <<worktree_path, server_info, runtime_status,
                           runtime_initialized, wtDir, wtFiles, rprocs,
                           rtlast>>
       ELSE IF rtcall.pc = "resume_wait"
       THEN /\ rtcall' = RtIdleCall
            /\ rtlast' = ev("resume", IF out = "alive" THEN "none" ELSE out)
            /\ UNCHANGED <<worktree_path, server_info, runtime_status,
                           runtime_initialized, wtDir, wtFiles, rprocs>>
       ELSE IF out = "alive" /\ envOk
       THEN /\ runtime_status' = "READY"
            /\ runtime_initialized' = TRUE
            /\ rtcall' = RtIdleCall
            /\ rtlast' = ev("connect", "none")
            /\ UNCHANGED <<worktree_path, server_info, wtDir, wtFiles,
                           rprocs>>
       ELSE /\ connect_cleanup(worktree_path, wtDir, wtFiles,
                               ev("connect", IF out = "alive"
                                             THEN "SetupError" ELSE out))
            /\ UNCHANGED <<runtime_status, runtime_initialized>>
    /\ UNCHANGED <<rnextPid, attach_to_existing, keep_runtime_alive,
                   paused_files, svcVars>>

\* pause that tears down like close does: _stop_server and then
\* _remove_worktree.
pause_removing_worktree ==
    LET ev(err) == [op |-> "pause", err |-> err, attempts |-> 0, started |-> 0,
                    created |-> FALSE, hadProc |-> ServerRunning,
                    hadDir |-> wtDir]
    IN
    /\ rtcall.pc = "idle"
    /\ IF server_info = 0
       THEN /\ rtlast' = ev("RuntimeError")
            /\ UNCHANGED <<rprocs, server_info, paused_files, wtDir, wtFiles>>
       ELSE /\ rprocs' = stop_server(rprocs, server_info)
            /\ server_info' = 0
            /\ wtDir' = remove_worktree(worktree_path, wtDir)
            /\ wtFiles' = {}
            /\ paused_files' = [taken |-> TRUE, files |-> wtFiles]
            /\ rtlast' = ev("none")
    /\ UNCHANGED <<worktree_path, runtime_status, runtime_initialized,
                   rnextPid, attach_to_existing, keep_runtime_alive,
                   rtcall, svcVars>>

\* pause: RuntimeError without a _server_info, else _stop_server.
pause ==
    LET ev(err) == [op |-> "pause", err |-> err, attempts |-> 0, started |-> 0,
                    created |-> FALSE, hadProc |-> ServerRunning,
                    hadDir |-> wtDir]
    IN
    /\ rtcall.pc = "idle"
    /\ IF server_info = 0
       THEN /\ rtlast' = ev("RuntimeError")
            /\ UNCHANGED <<rprocs, server_info, paused_files>>
       ELSE /\ rprocs' = stop_server(rprocs, server_info)
            /\ server_info' = 0
            /\ paused_files' = [taken |-> TRUE, files |-> wtFiles]
            /\ rtlast' = ev("none")
    /\ UNCHANGED <<worktree_path, runtime_status, runtime_initialized, wtDir,
                   wtFiles, rnextPid, attach_to_existing, keep_runtime_alive,
                   rtcall, svcVars>>

\* resume up to its readiness wait: RuntimeError without a worktree_path,
\* else _start_server, whose Popen(cwd=worktree_path) fails when the
\* directory is gone (AgentRuntimeError), and the new _server_info.
resume_begin(popenOk) ==
    LET ev(err) == [op |-> "resume", err |-> err, attempts |-> 0,
                    started |-> 0,
                    created |-> FALSE, hadProc |-> ServerRunning,
                    hadDir |-> wtDir]
    IN
    /\ rtcall.pc = "idle"
    /\ rnextPid <= MaxRtSpawn
    /\ IF worktree_path = None
       THEN /\ rtlast' = ev("RuntimeError")
            /\ UNCHANGED <<rprocs, server_info, rnextPid, rtcall>>
       ELSE IF ~wtDir \/ ~popenOk
       THEN /\ rtlast' = ev("AgentRuntimeError")
            /\ UNCHANGED <<rprocs, server_info, rnextPid, rtcall>>
       ELSE /\ rprocs' = [rprocs EXCEPT ![rnextPid] = "alive"]
            /\ server_info' = rnextPid
            /\ rnextPid' = rnextPid + 1
            /\ rtcall' = [pc |-> "resume_wait", elapsed |-> 0,
                          started |-> rnextPid, created |-> FALSE,
                          hadProc |-> ServerRunning, hadDir |-> wtDir]
            /\ rtlast' = RtNoCall
    /\ UNCHANGED <<worktree_path, runtime_status, runtime_initialized, wtDir,
                   wtFiles, attach_to_existing, keep_runtime_alive,
                   paused_files, svcVars>>

\* close that tears down whatever the two flags say.
close_ignoring_flags ==
    /\ rtcall.pc = "idle"
    /\ rprocs' = stop_server(rprocs, server_info)
    /\ server_info' = 0
    /\ wtDir' = remove_worktree(worktree_path, wtDir)
    /\ wtFiles' = IF remove_worktree(worktree_path, wtDir)
                  THEN wtFiles ELSE {}
    /\ rtlast' = [op |-> "close", err |-> "none", attempts |-> 0,
                  started |-> 0,
                  created |-> FALSE, hadProc |-> ServerRunning,
                  hadDir |-> wtDir, again |-> rtlast.op = "close"]
    /\ paused_files' = NoSnap
    /\ UNCHANGED <<worktree_path, runtime_status, runtime_initialized,
                   rnextPid, attach_to_existing, keep_runtime_alive, rtcall,
                   svcVars>>

\* close that asks for a started server as pause does.
close_requiring_server ==
    /\ rtcall.pc = "idle"
    /\ IF keep_runtime_alive \/ attach_to_existing \/ server_info = 0
       THEN UNCHANGED <<rprocs, server_info, wtDir, wtFiles>>
       ELSE /\ rprocs' = stop_server(rprocs, server_info)
            /\ server_info' = 0
            /\ wtDir' = remove_worktree(worktree_path, wtDir)
            /\ wtFiles' = IF remove_worktree(worktree_path, wtDir)
                          THEN wtFiles ELSE {}
    /\ rtlast' = [op |-> "close",
                  err |-> IF server_info = 0 /\ ~keep_runtime_alive
                                             /\ ~attach_to_existing
                          THEN "RuntimeError" ELSE "none",
                  attempts |-> 0, started |-> 0,
                  created |-> FALSE, hadProc |-> ServerRunning,
                  hadDir |-> wtDir, again |-> rtlast.op = "close"]
    /\ paused_files' = NoSnap
    /\ UNCHANGED <<worktree_path, runtime_status, runtime_initialized,
                   rnextPid, attach_to_existing, keep_runtime_alive, rtcall,
                   svcVars>>

\* close: nothing with keep_runtime_alive or attach_to_existing, else
\* _stop_server and _remove_worktree.  `again`: the call that ended before
\* this one on the runtime was a close too.
close ==
    /\ rtcall.pc = "idle"
    /\ IF keep_runtime_alive \/ attach_to_existing
       THEN UNCHANGED <<rprocs, server_info, wtDir, wtFiles>>
       ELSE /\ rprocs' = stop_server(rprocs, server_info)
            /\ server_info' = 0
            /\ wtDir' = remove_worktree(worktree_path, wtDir)
            /\ wtFiles' = IF remove_worktree(worktree_path, wtDir)
                          THEN wtFiles ELSE {}
    /\ rtlast' = [op |-> "close", err |-> "none", attempts |-> 0,
                  started |-> 0,
                  created |-> FALSE, hadProc |-> ServerRunning,
                  hadDir |-> wtDir, again |-> rtlast.op = "close"]
    /\ paused_files' = NoSnap
    /\ UNCHANGED <<worktree_path, runtime_status, runtime_initialized,
                   rnextPid, attach_to_existing, keep_runtime_alive, rtcall,
                   svcVars>>

\* _create_worktree called on its own, as the tests do: the same steps as
\* inside connect, and the path goes back to the caller; nothing assigns
\* self.worktree_path.
create_worktree(initOk, addOk, cfgOk) ==
    LET dir1  == IF wtDir THEN remove_worktree(worktree_path, wtDir)
                 ELSE FALSE
        added == initOk /\ addOk /\ ~dir1
        ev(err) == [op |-> "create_worktree", err |-> err, attempts |-> 0,
                    started |-> 0, created |-> added,
                    hadProc |-> ServerRunning, hadDir |-> wtDir]
    IN
    /\ rtcall.pc = "idle"
    /\ wtDir' = IF initOk THEN (dir1 \/ added) ELSE wtDir
    /\ wtFiles' = IF ~initOk \/ dir1 THEN wtFiles ELSE {}
    /\ rtlast' = ev(IF added /\ cfgOk THEN "none" ELSE "AgentRuntimeError")
    /\ UNCHANGED <<worktree_path, server_info, runtime_status,
                   runtime_initialized, rprocs, rnextPid,
                   attach_to_existing, keep_runtime_alive, rtcall,
                   paused_files, svcVars>>

\* _remove_worktree called on its own.
remove_worktree_call ==
    /\ rtcall.pc = "idle"
    /\ wtDir' = remove_worktree(worktree_path, wtDir)
    /\ wtFiles' = IF remove_worktree(worktree_path, wtDir)
                  THEN wtFiles ELSE {}
    /\ rtlast' = [op |-> "remove_worktree", err |-> "none", attempts |-> 0,
                  started |-> 0, created |-> FALSE,
                  hadProc |-> ServerRunning, hadDir |-> wtDir]
    /\ UNCHANGED <<worktree_path, server_info, runtime_status,
                   runtime_initialized, rprocs, rnextPid,
                   attach_to_existing, keep_runtime_alive, rtcall,
                   paused_files, svcVars>>

\* Seconds _stop_server waits for the process after terminate():
\* process.wait(timeout=5).
TerminateWait == 5

\* close with the waits of _stop_server as steps of their own.  Up to the
\* first wait: close as above when there is nothing to wait for, else the
\* log thread is signalled, terminate() is sent and wait(timeout=5) begins.
close_begin ==
    IF keep_runtime_alive \/ attach_to_existing \/ ~ServerRunning
    THEN close
    ELSE /\ rtcall.pc = "idle"
         /\ rtcall' = [pc |-> "term_wait", elapsed |-> 0, started |-> 0,
                       created |-> FALSE, hadProc |-> TRUE, hadDir |-> wtDir]
         /\ rtlast' = RtNoCall
         /\ paused_files' = NoSnap
         /\ UNCHANGED <<worktree_path, server_info, runtime_status,
                        runtime_initialized, wtDir, wtFiles, rprocs,
                        rnextPid, attach_to_existing, keep_runtime_alive,
                        svcVars>>

\* The rest of close once a wait of _stop_server has returned: the log
\* thread is joined for at most 2 s, _server_info is dropped and
\* _remove_worktree runs.
close_end ==
    /\ rprocs' = stop_server(rprocs, server_info)
    /\ server_info' = 0
    /\ wtDir' = remove_worktree(worktree_path, wtDir)
    /\ wtFiles' = IF remove_worktree(worktree_path, wtDir)
                  THEN wtFiles ELSE {}
    /\ rtlast' = [op |-> "close", err |-> "none", attempts |-> 0,
                  started |-> 0, created |-> FALSE,
                  hadProc |-> rtcall.hadProc, hadDir |-> rtcall.hadDir,
                  again |-> FALSE]
    /\ rtcall' = RtIdleCall
    /\ UNCHANGED <<worktree_path, runtime_status, runtime_initialized,
                   rnextPid, attach_to_existing, keep_runtime_alive,
                   paused_files, svcVars>>

\* One second of process.wait(timeout=5).  exits: the process has ended,
\* now or before; when the 5 s are over without that, TimeoutExpired is
\* caught, kill() is sent and process.wait() begins.
stop_server_wait(exits) ==
    /\ rtcall.pc = "term_wait"
    /\ ~ServerRunning => exits
    /\ IF exits
       THEN close_end
       ELSE /\ rtcall' = IF rtcall.elapsed + 1 >= TerminateWait
                         THEN [rtcall EXCEPT !.pc = "kill_wait",
                                             !.elapsed = 0]
                         ELSE [rtcall EXCEPT !.elapsed = @ + 1]
            /\ UNCHANGED <<worktree_path, server_info, runtime_status,
                           runtime_initialized, wtDir, wtFiles, rprocs,
                           rnextPid, attach_to_existing, keep_runtime_alive,
                           rtlast, paused_files, svcVars>>

\* process.wait() after kill(): it has no timeout and returns when the
\* process has ended, which is this step.
stop_server_wait_after_kill ==
    /\ rtcall.pc = "kill_wait"
    /\ close_end

\* The server process exits on its own or is killed from outside.
server_exit(p) ==
    /\ rprocs[p] = "alive"
    /\ rprocs' = [rprocs EXCEPT ![p] = "exited"]
    /\ UNCHANGED <<worktree_path, server_info, runtime_status,
                   runtime_initialized, wtDir, wtFiles, rnextPid,
                   attach_to_existing, keep_runtime_alive, rtcall, rtlast,
                   paused_files, svcVars>>

\* A file is written into the worktree.
write_worktree_file(f) ==
    /\ wtDir
    /\ f \notin wtFiles
    /\ wtFiles' = wtFiles \cup {f}
    /\ UNCHANGED <<worktree_path, server_info, runtime_status,
                   runtime_initialized, wtDir, rprocs, rnextPid,
                   attach_to_existing, keep_runtime_alive, rtcall, rtlast,
                   paused_files, svcVars>>

----------------------------------------------------------------------------
\* The inputs of a step are those the handler gets to read on its path:
\* the answer of the endpoint while the wait has budget, the outcome of
\* terminate/kill once it has none or when a live worker is deleted, and
\* of mkdir and Popen for a spec that is known.
SvcNext ==
    \/ \E i \in Ids, spec \in SpecIds, mkdirOk, popenOk \in BOOLEAN :
        \E key \in KeysFor(i) :
           /\ spec \notin KnownSpecs => mkdirOk /\ popenOk
           /\ ~mkdirOk => popenOk
           /\ start_sandbox_begin(i, spec, key, mkdirOk, popenOk)
    \/ \E i \in Ids : start_sandbox_after_sleep(i)
    \/ \E i \in Ids, resp \in {"200", "503", "refused"} :
           /\ calls[i].elapsed < ReadyTimeout
           /\ start_sandbox_poll(i, resp, FALSE)
    \/ \E i \in Ids, stuck \in BOOLEAN :
           /\ calls[i].elapsed >= ReadyTimeout
           /\ start_sandbox_poll(i, "refused", stuck)
    \/ \E i \in Ids, stuck \in BOOLEAN :
           /\ stuck => Registered(i) /\ Alive(worktrees[i].pid)
           /\ delete_sandbox(i, stuck)
    \/ \E p \in Pids : worker_bind(p)
    \/ \E p \in Pids : worker_exit(p)
    \/ \E port \in Ports : ext_bind(port)
    \/ \E port \in Ports : ext_release(port)

RtNext ==
    \/ \E initOk, addOk, cfgOk, popenOk \in BOOLEAN :
           connect_begin(initOk, addOk, cfgOk, popenOk)
    \/ \E resp \in {"ok", "connect_error", "http_error"}, envOk \in BOOLEAN :
           wait_attempt(resp, envOk)
    \/ pause
    \/ \E popenOk \in BOOLEAN : resume_begin(popenOk)
    \/ close
    \/ \E p \in RPids : server_exit(p)
    \/ \E f \in Files : write_worktree_file(f)

\* The service, beside a runtime nobody calls.
SvcSpecInit == SvcInit /\ RtQuiet
SvcSpec == SvcSpecInit /\ [][SvcNext]_vars

\* One runtime, beside a service nobody calls.
RtSpecInit == SvcInit /\ RtInit
RtSpec == RtSpecInit /\ [][RtNext]_vars

\* The two readiness waits side by side: start_sandbox for one id and
\* connect of the runtime, every external command succeeding, with the
\* worker and the server free to bind late, to answer 503 and to exit.
WaitNext ==
    \/ start_sandbox_begin("s1", "spec", "k1", TRUE, TRUE)
    \/ start_sandbox_after_sleep("s1")
    \/ \E resp \in {"200", "503", "refused"} :
           /\ calls["s1"].elapsed < ReadyTimeout
           /\ start_sandbox_poll("s1", resp, FALSE)
    \/ /\ calls["s1"].elapsed >= ReadyTimeout
       /\ start_sandbox_poll("s1", "refused", FALSE)
    \/ \E p \in Pids : worker_bind(p)
    \/ \E p \in Pids : worker_exit(p)
    \/ connect_begin(TRUE, TRUE, TRUE, TRUE)
    \/ \E resp \in {"ok", "connect_error", "http_error"}, envOk \in BOOLEAN :
           wait_attempt(resp, envOk)
    \/ \E p \in RPids : server_exit(p)

WaitSpec == SvcSpecInit /\ [][WaitNext]_vars

\* The worktree methods called directly on a runtime, as the tests call
\* them, between connects and closes.
WtNext ==
    \/ \E initOk, addOk, cfgOk \in BOOLEAN :
           create_worktree(initOk, addOk, cfgOk)
    \/ remove_worktree_call
    \/ \E popenOk \in BOOLEAN : connect_begin(TRUE, TRUE, TRUE, popenOk)
    \/ \E resp \in {"ok", "connect_error"} : wait_attempt(resp, TRUE)
    \/ close
    \/ \E p \in RPids : server_exit(p)
    \/ \E f \in Files : write_worktree_file(f)

WtSpec == RtSpecInit /\ [][WtNext]_vars

\* Stopping: one runtime that connects and is closed, the waits of
\* _stop_server taken one by one, beside a service whose sandboxes are
\* started and deleted.
StopNext ==
    \/ connect_begin(TRUE, TRUE, TRUE, TRUE)
    \/ \E resp \in {"ok", "connect_error"} : wait_attempt(resp, TRUE)
    \/ close_begin
    \/ \E exits \in BOOLEAN : stop_server_wait(exits)
    \/ stop_server_wait_after_kill
    \/ \E p \in RPids : server_exit(p)
    \/ \E f \in Files : write_worktree_file(f)

StopSpec == RtSpecInit /\ [][StopNext]_vars

\* The waits of _stop_server that have a timeout go on by themselves, and
\* the wait without one returns once the process has ended; that a process
\* ends when signalled is up to the process.
StopLive ==
    /\ StopSpec
    /\ WF_vars(\E exits \in BOOLEAN : stop_server_wait(exits))
    /\ WF_vars(~ServerRunning /\ stop_server_wait_after_kill)

\* Two sandbox ids side by side: start_sandbox and delete_sandbox for
\* both, in every interleaving of their steps and of the workers' own
\* steps, with every spec known and no port held by another program.
PairNext ==
    \/ \E i \in Ids, popenOk \in BOOLEAN : \E key \in KeysFor(i) :
           start_sandbox_begin(i, "spec", key, TRUE, popenOk)
    \/ \E i \in Ids : start_sandbox_after_sleep(i)
    \/ \E i \in Ids, resp \in {"200", "refused"} :
           /\ calls[i].elapsed < ReadyTimeout
           /\ start_sandbox_poll(i, resp, FALSE)
    \/ \E i \in Ids, stuck \in BOOLEAN :
           /\ calls[i].elapsed >= ReadyTimeout
           /\ start_sandbox_poll(i, "refused", stuck)
    \/ \E i \in Ids, stuck \in BOOLEAN :
           /\ stuck => Registered(i) /\ Alive(worktrees[i].pid)
           /\ delete_sandbox(i, stuck)
    \/ \E p \in Pids : worker_bind(p)
    \/ \E p \in Pids : worker_exit(p)

PairSpec == SvcSpecInit /\ [][PairNext]_vars

\* The queries and the unsupported operations on sandboxes that are
\* started, with any session key, and deleted, every external command
\* succeeding.
QueryNext ==
    \/ \E i \in Ids, key \in Keys :
           start_sandbox_begin(i, "spec", key, TRUE, TRUE)
    \/ \E i \in Ids : start_sandbox_after_sleep(i)
    \/ \E i \in Ids :
           /\ calls[i].elapsed < ReadyTimeout
           /\ start_sandbox_poll(i, "200", FALSE)
    \/ \E p \in Pids : worker_bind(p)
    \/ \E i \in Ids : delete_sandbox(i, FALSE)
    \/ \E i \in Ids : pause_sandbox(i)
    \/ \E i \in Ids : resume_sandbox(i)
    \/ \E order \in Orders, key \in Keys :
           find_sandbox_by_session_api_key(order, key)

QuerySpec == SvcSpecInit /\ [][QueryNext]_vars

\* Concurrent starts: start_sandbox and delete_sandbox for both ids,
\* interleaved at the awaits, every external command succeeding, with
\* workers that bind their port sooner or later and never exit by
\* themselves once they listen, and no port held by another program.
RaceNext ==
    \/ \E i \in Ids : \E key \in KeysFor(i) :
           start_sandbox_begin(i, "spec", key, TRUE, TRUE)
    \/ \E i \in Ids : start_sandbox_after_sleep(i)
    \/ \E i \in Ids, resp \in {"200", "503", "refused"} :
           /\ calls[i].elapsed < ReadyTimeout
           /\ start_sandbox_poll(i, resp, FALSE)
    \/ \E i \in Ids :
           /\ calls[i].elapsed >= ReadyTimeout
           /\ start_sandbox_poll(i, "refused", FALSE)
    \/ \E i \in Ids : delete_sandbox(i, FALSE)
    \/ \E p \in Pids : worker_bind(p)

RaceSpec == SvcSpecInit /\ [][RaceNext]_vars

\* The file operations and execute_command, for the id "s1" that is
\* started and deleted with every external command succeeding and for the
\* id "s2" that never has a record, with workspaces that may be removed
\* from outside.
FsNext ==
    \/ start_sandbox_begin("s1", "spec", "k1", TRUE, TRUE)
    \/ start_sandbox_after_sleep("s1")
    \/ /\ calls["s1"].elapsed < ReadyTimeout
       /\ start_sandbox_poll("s1", "200", FALSE)
    \/ \E p \in Pids : worker_bind(p)
    \/ \E i \in Ids : delete_sandbox(i, FALSE)
    \/ \E i \in Ids, path \in FilePaths : read_file(i, path)
    \/ \E i \in Ids, path \in FilePaths, content \in Bytes :
           write_file(i, path, content)
    \/ \E i \in Ids, command \in Commands : execute_command(i, command)
    \/ \E path \in Ids : workspace_removed(path)

FsSpec == SvcSpecInit /\ [][FsNext]_vars

\* The port scan: start_sandbox for both ids up to the registration, over
\* every set of ports that other programs hold when the service comes up
\* and every order in which workers and other programs bind and release.
PortSpecInit ==
    /\ worktrees = <<>>
    /\ dirs = {}
    /\ pstate = [p \in Pids |-> "unborn"]
    /\ pport = [p \in Pids |-> 0]
    /\ extPorts \in SUBSET Ports
    /\ nextPid = 1
    /\ calls = [i \in Ids |-> IdleCall]
    /\ last = NoCall
    /\ wsFiles = <<>>
    /\ RtQuiet

PortNext ==
    \/ \E i \in Ids, popenOk \in BOOLEAN : \E key \in KeysFor(i) :
           start_sandbox_begin(i, "spec", key, TRUE, popenOk)
    \/ \E i \in Ids : start_sandbox_after_sleep(i)
    \/ \E p \in Pids : worker_bind(p)
    \/ \E port \in Ports : ext_bind(port)
    \/ \E port \in Ports : ext_release(port)

PortSpec == PortSpecInit /\ [][PortNext]_vars

(***************************************************************************)
(* The claims                                                              *)
(***************************************************************************)

\* C1: whenever start_sandbox raises, at whichever step, no worker process
\* spawned by that call is alive and the workspace directory of its sandbox
\* id does not exist when the error reaches the caller.
C1_FailedStartLeavesNothing ==
    (last.op = "start" /\ last.res = "raised") =>
        /\ last.pid = 0 \/ ~Alive(last.pid)
        /\ last.id \notin dirs

\* C2: when connect raises, the server process it started, if any, has
\* been stopped and the worktree directory it created, if any, has been
\* removed before the caller sees the exception.
C2_FailedConnectCleansUp ==
    (rtlast.op = "connect" /\ rtlast.err # "none") =>
        /\ rtlast.started = 0 \/ ~RtAlive(rtlast.started)
        /\ rtlast.created => ~wtDir

\* C3: after start_sandbox has raised for an id that had no record when the
\* call began, the id has no record: get_sandbox gives None for it and
\* list_sandboxes has no item for it.
C3_FailedStartNotRegistered ==
    (last.op = "start" /\ last.res = "raised" /\ ~last.wasReg) =>
        /\ ~Registered(last.id)
        /\ get_sandbox(last.id) = None
        /\ \A item \in list_sandboxes : item.id # last.id

\* C3 witness: a call for an unregistered id that raised after its record
\* had been stored, when the readiness wait gave up.
C3_Witness ==
    /\ last.op = "start"
    /\ last.res = "raised"
    /\ last.stage = "ready"
    /\ ~last.wasReg

\* C4: when start_sandbox returns its SandboxInfo, the workspace directory
\* of the record exists and the recorded pid is alive.
C4_ReturnedStartIsLive ==
    (last.op = "start" /\ last.res = "returned") =>
        /\ last.id \in dirs
        /\ Alive(last.pid)

\* C5: delete_sandbox returns True for every id, with or without a record,
\* and when it has returned the id has no record (so that a repeated delete
\* is a delete of an absent id).
C5_DeleteReturnsTrueAndDeregisters ==
    (last.op = "delete") =>
        /\ last.res = "True"
        /\ ~Registered(last.id)
        /\ get_sandbox(last.id) = None

\* C5 witness: the delete of a registered id that went through the except
\* branch, its worker having survived terminate and kill.
C5_Witness ==
    /\ last.op = "delete"
    /\ last.wasReg
    /\ Alive(last.pid)

\* C6: when delete_sandbox has returned, for a first or a repeated call on
\* the id, the worker process of the sandbox is not alive and its workspace
\* directory does not exist.
C6_DeleteLeavesNothing ==
    (last.op = "delete") =>
        /\ last.pid = 0 \/ ~Alive(last.pid)
        /\ last.id \notin dirs

\* C7: pause leaves the worktree as it is and resume restarts the server in
\* the same worktree path: from a pause on, through the resume that follows
\* it, the directory exists at the unchanged worktree_path and holds every
\* file it held when pause was called.
C7_PauseResumeKeepsWorktree ==
    paused_files.taken =>
        /\ wtDir
        /\ worktree_path = WorktreePath
        /\ paused_files.files \subseteq wtFiles

\* C7 witness: a resume that followed a pause has returned, its new server
\* process is running, and the file written before the pause is there.
C7_Witness ==
    /\ rtlast.op = "resume"
    /\ rtlast.err = "none"
    /\ RtAlive(rtlast.started)
    /\ paused_files.taken
    /\ paused_files.files # {}
    /\ paused_files.files \subseteq wtFiles

\* C8: resume on a runtime no connect of which has succeeded (never
\* connected, or connect raised) fails with the invalid-state error
\* (RuntimeError) and starts no process.
C8_ResumeBeforeConnectIsInvalidState ==
    (rtlast.op = "resume" /\ ~runtime_initialized) =>
        /\ rtlast.err = "RuntimeError"
        /\ rtlast.started = 0

\* C9: resume called while the server process is running, or with the
\* worktree directory gone, is rejected and starts no other process.
C9_ResumeOnlyFromPaused ==
    (rtlast.op = "resume" /\ (rtlast.hadProc \/ ~rtlast.hadDir)) =>
        /\ rtlast.err # "none"
        /\ rtlast.started = 0

\* C10: pause called while no server process is running (no _server_info,
\* or a recorded process that has exited) raises the invalid-state error
\* (RuntimeError) and changes nothing.
C10_PauseWithoutProcessIsInvalidState ==
    [][(pause /\ ~ServerRunning) =>
          /\ rtlast'.err = "RuntimeError"
          /\ UNCHANGED <<worktree_path, server_info, runtime_status, wtDir,
                         wtFiles, rprocs>>]_vars

\* C11: an attempt of wait_until_alive that finds the server process
\* exited (or no server at all) ends the wait there and then with
\* AgentRuntimeDisconnectedError, whatever the endpoint would answer and
\* however little of the budget is used: no retry follows and the error is
\* not the one of the exhausted budget.
C11_DeadProcessDisconnectsAtOnce ==
    [][\A resp \in {"ok", "connect_error", "http_error"}, envOk \in BOOLEAN :
          (wait_attempt(resp, envOk) /\ ~ServerRunning) =>
              /\ rtcall'.pc = "idle"
              /\ rtlast'.err = "AgentRuntimeDisconnectedError"
              /\ rtlast'.attempts = rtcall.elapsed + 1]_vars

\* C11 witness: the process exited between two attempts, and the second
\* attempt, with budget left, raised the disconnected error.
C11_Witness ==
    /\ rtlast.op \in {"connect", "resume"}
    /\ rtlast.err = "AgentRuntimeDisconnectedError"
    /\ rtlast.attempts = 2
    /\ rtlast.attempts < WaitAttempts + 1
    /\ ~RtAlive(rtlast.started)

\* C12: in the readiness wait of start_sandbox, an iteration that finds the
\* worker process exited ends the wait and the create fails there, with
\* budget left or not; an iteration that finds the worker alive but not
\* yet answering 200, with budget left, goes on polling.
C12_ReadinessWaitStopsOnWorkerExit ==
    [][\A i \in Ids, resp \in {"200", "503", "refused"}, stuck \in BOOLEAN :
          start_sandbox_poll(i, resp, stuck) =>
              /\ ~Alive(calls[i].pid) =>
                     /\ last'.op = "start"
                     /\ last'.id = i
                     /\ last'.res = "raised"
              /\ (/\ Alive(calls[i].pid)
                  /\ resp # "200"
                  /\ calls[i].elapsed < ReadyTimeout) =>
                     /\ calls'[i].pc = "waiting"
                     /\ last' = NoCall]_vars

\* C13: in both readiness waits, while the process is alive and the budget
\* is not used up, a connection-level failure is answered by one more
\* attempt one interval later, and a success of the liveness endpoint ends
\* the wait with success on that very attempt, whatever number of failed
\* attempts came before it.
C13_ConnectionFailuresAreRetried ==
    [][/\ \A i \in Ids :
            (/\ start_sandbox_poll(i, "refused", FALSE)
             /\ Alive(calls[i].pid)
             /\ calls[i].elapsed < ReadyTimeout) =>
                /\ calls' = [calls EXCEPT ![i].elapsed = @ + 1]
                /\ last' = NoCall
       /\ \A i \in Ids :
            (/\ start_sandbox_poll(i, "200", FALSE)
             /\ Alive(calls[i].pid)
             /\ calls[i].elapsed < ReadyTimeout) =>
                /\ last'.id = i
                /\ last'.res = "returned"
                /\ last'.polls = calls[i].elapsed
       /\ \A envOk \in BOOLEAN :
            (/\ wait_attempt("connect_error", envOk)
             /\ ServerRunning
             /\ rtcall.elapsed + 1 < WaitAttempts) =>
                /\ rtcall' = [rtcall EXCEPT !.elapsed = @ + 1]
                /\ rtlast' = rtlast
       /\ \A envOk \in BOOLEAN :
            (wait_attempt("ok", envOk) /\ ServerRunning) =>
                /\ rtcall'.pc = "idle"
                /\ rtlast'.err \in {"none", "SetupError"}
                /\ rtlast'.attempts = rtcall.elapsed + 1]_vars

\* C13 witness: start_sandbox has returned after a refused poll and connect
\* has returned on its second attempt, both with their process alive.
C13_Witness ==
    /\ last.op = "start"
    /\ last.res = "returned"
    /\ last.polls >= 1
    /\ Alive(last.pid)
    /\ rtlast.op = "connect"
    /\ rtlast.err = "none"
    /\ rtlast.attempts >= 2
    /\ RtAlive(rtlast.started)

\* C14: in both readiness waits, while the process is alive, an answer that
\* is neither a success nor a connection failure (a non-2xx status) counts
\* as not ready yet and is followed by one more attempt while budget is
\* left; and a wait whose process is alive fails on no attempt but the one
\* that uses up the budget.
C14_OtherOutcomesAreRetriedUntilBudget ==
    [][/\ \A i \in Ids :
            (/\ start_sandbox_poll(i, "503", FALSE)
             /\ Alive(calls[i].pid)
             /\ calls[i].elapsed < ReadyTimeout) =>
                /\ calls' = [calls EXCEPT ![i].elapsed = @ + 1]
                /\ last' = NoCall
       /\ \A i \in Ids, resp \in {"200", "503", "refused"} :
            (/\ start_sandbox_poll(i, resp, FALSE)
             /\ Alive(calls[i].pid)
             /\ last'.res = "raised") =>
                calls[i].elapsed >= ReadyTimeout
       /\ \A envOk \in BOOLEAN :
            (/\ wait_attempt("http_error", envOk)
             /\ ServerRunning
             /\ rtcall.elapsed + 1 < WaitAttempts) =>
                /\ rtcall' = [rtcall EXCEPT !.elapsed = @ + 1]
                /\ rtlast' = rtlast
       /\ \A resp \in {"connect_error", "http_error"}, envOk \in BOOLEAN :
            (/\ wait_attempt(resp, envOk)
             /\ ServerRunning
             /\ rtcall'.pc = "idle") =>
                rtcall.elapsed + 1 >= WaitAttempts]_vars

\* C15: the port start_sandbox gets from _find_unused_port is the lowest
\* port of [base_port, base_port + span) that can be bound at that moment,
\* never one outside the range, and the call fails for want of a port
\* exactly when no port of the range can be bound.
C15_LowestFreePortOrExhausted ==
    [][\A i \in Ids, key \in Keys, mkdirOk, popenOk \in BOOLEAN :
          start_sandbox_begin(i, "spec", key, mkdirOk, popenOk) =>
              LET free == {port \in Ports : CanBind(port)} IN
              /\ (last'.stage = "port") <=> (free = {})
              /\ calls'[i].pc = "sleeping" =>
                     /\ calls'[i].port = Min(free)
                     /\ calls'[i].port >= BasePort
                     /\ calls'[i].port < BasePort + PortSpan]_vars

\* C15 witness: a start_sandbox that found every port of the range bound,
\* by a listening worker and by another program, and raised.
C15_Witness ==
    /\ last.op = "start"
    /\ last.stage = "port"
    /\ \A port \in Ports : ~CanBind(port)
    /\ \E p \in Pids : pstate[p] = "listening" /\ pport[p] = BasePort
    /\ extPorts # {}

\* C16: a start_sandbox whose worker found the chosen port taken, by a
\* process that bound it after _find_unused_port had probed it, does not
\* end by raising: the race is met by another try, not by failing the
\* create.
C16_PortRaceIsNotFatal ==
    [][\A i \in Ids :
          (/\ calls[i].raced
           /\ \/ start_sandbox_after_sleep(i)
              \/ \E resp \in {"200", "503", "refused"}, stuck \in BOOLEAN :
                     start_sandbox_poll(i, resp, stuck)) =>
              last'.res # "raised"]_vars

\* C17: for every registered sandbox, get_sandbox and list_sandboxes give
\* an item whose status is RUNNING when the process of the recorded pid is
\* alive and STOPPED when it is not, whether it was stopped by the service
\* or has exited or been killed without any request to the service.
C17_StatusFollowsLiveness ==
    \A i \in DOMAIN worktrees :
        LET live == IF Alive(worktrees[i].pid) THEN "RUNNING" ELSE "STOPPED"
        IN  /\ get_sandbox(i).status = live
            /\ \A item \in list_sandboxes : item.id = i => item.status = live

\* C18: a read_file or write_file for an id without a record, or for a
\* sandbox whose workspace directory is missing, ends by raising and
\* creates or changes no directory and no file.
C18_MissingSandboxOrWorkspaceIsNotFound ==
    [][(/\ last'.op \in {"read", "write"}
        /\ ~last'.wasReg \/ ~last'.hadDir) =>
           /\ last'.res = "raised"
           /\ last'.stage \in {"SandboxError", "FileNotFoundError"}
           /\ UNCHANGED <<dirs, wsFiles>>]_vars

C20_ExecuteCommandIsUnsupported ==
    [][last'.op = "execute" =>
          /\ last'.res = "raised"
          /\ last'.stage = "SandboxError"
          /\ UNCHANGED <<worktrees, pstate, pport, dirs, wsFiles>>]_vars

\* C20 witness: an execute_command that raised for a registered sandbox
\* whose worker is listening and whose workspace holds a file.
C20_Witness ==
    /\ last.op = "execute"
    /\ last.res = "raised"
    /\ last.wasReg
    /\ pstate[worktrees[last.id].pid] = "listening"
    /\ <<last.id, "a.txt">> \in DOMAIN wsFiles

\* C21: close never raises, whether the runtime never started (no server
\* process, no worktree), is running, or has been closed before, and a
\* close that follows a close changes nothing: the recorded path and
\* process, the status, the directory with its files and the processes
\* stay as the first close left them.
C21_CloseIsIdempotent ==
    [][close =>
          /\ rtlast'.err = "none"
          /\ rtlast.op = "close" =>
                 UNCHANGED <<worktree_path, server_info, runtime_status,
                             runtime_initialized, wtDir, wtFiles,
                             rprocs>>]_vars

\* C21 witness: a second close on a runtime that had connected and whose
\* first close stopped the server and removed the worktree.
C21_Witness ==
    /\ rtlast.op = "close"
    /\ rtlast.again
    /\ rtlast.err = "none"
    /\ worktree_path # None
    /\ ~keep_runtime_alive /\ ~attach_to_existing
    /\ \E p \in RPids : rprocs[p] = "exited"

\* C22: stopping the server process always returns: a _stop_server that
\* has sent terminate() and waits for the process comes to its end, also
\* when the process ends neither within the grace period nor after the
\* kill.
C22_StopAlwaysReturns ==
    (rtcall.pc = "term_wait") ~> (rtcall.pc = "idle")

\* C23: a connect that finds the directory of the runtime's worktree name
\* already there, and whose git commands and Popen all succeed, removes
\* that directory and makes a fresh worktree at the path: no exception
\* from _create_worktree, the directory there again and empty of the old
\* files, for a runtime just constructed as for one that connected before.
C23_StaleWorktreeIsReplaced ==
    [][(wtDir /\ connect_begin(TRUE, TRUE, TRUE, TRUE)) =>
          /\ rtlast'.err = "none"
          /\ worktree_path' = WorktreePath
          /\ wtDir' /\ wtFiles' = {}
          /\ server_info' # 0 /\ rprocs'[server_info'] = "alive"]_vars

\* C24: whenever no start_sandbox is in flight for a sandbox id, the
\* workspace directory of the id, the one directory base_working_dir/<id>,
\* exists if and only if the id has a record.
C24_WorkspaceExistsIffRegistered ==
    \A i \in Ids :
        calls[i].pc = "idle" => (i \in dirs <=> Registered(i))

\* C25: a step of start_sandbox or delete_sandbox for a sandbox id A, at
\* any point of any interleaving with the calls for another id B, leaves
\* what a registered B owns as it was: its record, the state and port of
\* its worker process while that is alive, its workspace directory and
\* the files in it.
C25_OtherSandboxIsUntouched ==
    [][\A a, b \in Ids :
          (/\ a # b
           /\ Registered(b)
           /\ \/ \E key \in Keys, popenOk \in BOOLEAN :
                     start_sandbox_begin(a, "spec", key, TRUE, popenOk)
              \/ start_sandbox_after_sleep(a)
              \/ \E resp \in {"200", "refused"}, stuck \in BOOLEAN :
                     start_sandbox_poll(a, resp, stuck)
              \/ \E stuck \in BOOLEAN : delete_sandbox(a, stuck)) =>
              LET pid == worktrees[b].pid IN
              /\ b \in DOMAIN worktrees'
              /\ worktrees'[b] = worktrees[b]
              /\ Alive(pid) => pstate'[pid] = pstate[pid]
              /\ ~Alive(pid) => pstate'[pid] \notin {"running", "listening"}
              /\ pport'[pid] = pport[pid]
              /\ (b \in dirs') <=> (b \in dirs)
              /\ \A loc \in DOMAIN wsFiles :
                     WorkspaceOf(loc) = b =>
                        /\ loc \in DOMAIN wsFiles'
                        /\ wsFiles'[loc] = wsFiles[loc]]_vars

\* C25 witness: delete_sandbox has just removed the registered sandbox
\* "s1" with its worker, while "s2" is registered with a listening worker
\* and its directory.
C25_Witness ==
    /\ last.op = "delete"
    /\ last.id = "s1"
    /\ last.wasReg
    /\ pstate[last.pid] = "reaped"
    /\ "s1" \notin dirs
    /\ Registered("s2")
    /\ pstate[worktrees["s2"].pid] = "listening"
    /\ "s2" \in dirs

\* C26: whichever call removes a workspace directory (close, the cleanup
\* of a failing connect, the removal of the old worktree in
\* _create_worktree, delete_sandbox), the worker process of that sandbox
\* has been stopped by then: no step takes the directory away and leaves
\* the process recorded for it alive.
C26_ProcessStoppedBeforeWorkspaceRemoved ==
    [][/\ (/\ wtDir
           /\ \/ ~wtDir'
              \/ /\ worktree_path # None
                 /\ \E cfgOk, popenOk \in BOOLEAN :
                        connect_begin(TRUE, TRUE, cfgOk, popenOk)) =>
              (server_info = 0 \/ rprocs'[server_info] # "alive")
       /\ \A i \in DOMAIN worktrees :
              (i \in dirs /\ i \notin dirs') =>
                  pstate'[worktrees[i].pid] \notin {"running", "listening"}
      ]_vars

\* C27: when _create_worktree has returned a path to its caller and
\* _remove_worktree is called next on the same runtime, the path does not
\* exist afterwards.
C27_RemoveAfterCreateLeavesNoPath ==
    [][(/\ rtlast.op = "create_worktree"
        /\ rtlast.err = "none"
        /\ remove_worktree_call) => ~wtDir']_vars

\* C28: connect sets the status STARTING_RUNTIME when it begins and keeps
\* it while it provisions and waits; the status becomes READY only in the
\* step in which the readiness wait has succeeded and setup_initial_env
\* has succeeded, which is a connect that returns; a connect that raises
\* leaves a status other than READY, also when the runtime was READY
\* before the call.
C28_ReadyOnlyAfterSuccessfulConnect ==
    [][/\ (\E initOk, addOk, cfgOk, popenOk \in BOOLEAN :
              connect_begin(initOk, addOk, cfgOk, popenOk)) =>
              runtime_status' = "STARTING_RUNTIME"
       /\ rtcall'.pc = "connect_wait" =>
              runtime_status' = "STARTING_RUNTIME"
       /\ (runtime_status # "READY" /\ runtime_status' = "READY") =>
              /\ rtcall.pc = "connect_wait"
              /\ \E resp \in {"ok", "connect_error", "http_error"} :
                     /\ wait_outcome(resp, rtcall.elapsed) = "alive"
                     /\ wait_attempt(resp, TRUE)
              /\ rtlast'.op = "connect" /\ rtlast'.err = "none"
       /\ (rtlast'.op = "connect" /\ rtlast'.err # "none") =>
              runtime_status' # "READY"]_vars

\* C28 witness: a connect that raised because setup_initial_env failed,
\* on a runtime that an earlier connect had made READY.
C28_Witness ==
    /\ rtlast.op = "connect"
    /\ rtlast.err = "SetupError"
    /\ runtime_initialized
    /\ ~attach_to_existing
    /\ runtime_status = "STARTING_RUNTIME"

\* C29: pause_sandbox and resume_sandbox return False for every sandbox
\* id, with or without a record, and leave the registry, the processes
\* with their ports and the workspace directories with their files as
\* they were.
C29_PauseResumeSandboxAreNoOps ==
    [][last'.op \in {"pause_sandbox", "resume_sandbox"} =>
          /\ last'.res = "False"
          /\ UNCHANGED <<worktrees, pstate, pport, dirs, wsFiles>>]_vars

\* C29 witness: pause_sandbox has returned False for a registered sandbox
\* whose worker is listening.
C29_Witness ==
    /\ last.op = "pause_sandbox"
    /\ last.res = "False"
    /\ last.wasReg
    /\ pstate[worktrees[last.id].pid] = "listening"
    /\ last.id \in dirs

\* C30: find_sandbox_by_session_api_key(k) gives at most one item; an
\* item it gives is get_sandbox of a registered id whose record has the
\* session key k; and it gives None exactly when no record has the key k.
C30_FindByKeyMatchesTheKey ==
    last.op = "find" =>
        /\ Cardinality(last.found) <= 1
        /\ \A item \in last.found :
               /\ Registered(item.id)
               /\ worktrees[item.id].session_api_key = last.key
               /\ item = get_sandbox(item.id)
        /\ (last.found = {}) <=>
               ~\E i \in DOMAIN worktrees :
                    worktrees[i].session_api_key = last.key

\* C30 witness: with two registered sandboxes of different keys, the call
\* has returned the one that has the key, which is not the first record.
C30_Witness ==
    /\ last.op = "find"
    /\ Registered("s1") /\ Registered("s2")
    /\ worktrees["s1"].session_api_key # last.key
    /\ worktrees["s2"].session_api_key = last.key
    /\ last.found = {get_sandbox("s2")}

\* C31: a write_file for sandbox id A creates or changes only files, and
\* makes only directories, of A's own workspace, and a read_file for A
\* returns only the content of a file of A's own workspace, whatever the
\* path argument.
C31_FileOperationsStayInOwnWorkspace ==
    [][(last'.op \in {"read", "write"} /\ last'.res = "returned") =>
          LET wt == worktrees[last'.id].worktree_path IN
          /\ last'.op = "read" =>
                 WorkspaceOf(file_path(wt, last'.path)) = wt
          /\ \A loc \in DOMAIN wsFiles' :
                 (loc \notin DOMAIN wsFiles \/ wsFiles'[loc] # wsFiles[loc])
                     => WorkspaceOf(loc) = wt
          /\ dirs' \subseteq dirs \cup {wt}]_vars

\* C32: a close with keep_runtime_alive set or with attach_to_existing
\* true changes neither _server_info nor any server process nor the
\* worktree directory and its files: a running server keeps running in
\* its worktree.
C32_CloseKeepsRuntimeAlive ==
    [][(close /\ (keep_runtime_alive \/ attach_to_existing)) =>
          UNCHANGED <<server_info, rprocs, worktree_path, wtDir,
                      wtFiles>>]_vars

\* C32 witness: close has returned on a connected runtime with
\* keep_runtime_alive set, and the server runs in the worktree, which
\* holds a file.
C32_Witness ==
    /\ rtlast.op = "close"
    /\ rtlast.hadProc /\ rtlast.hadDir
    /\ keep_runtime_alive /\ ~attach_to_existing
    /\ ServerRunning
    /\ wtDir /\ wtFiles # {}
    /\ runtime_status = "READY"

\* C33: whenever no call is in flight on the runtime, at most one server
\* process that it started is alive, and a live one is the process that
\* _server_info refers to.
C33_OneServerAndItHasAHandle ==
    rtcall.pc = "idle" =>
        /\ Cardinality({p \in RPids : rprocs[p] = "alive"}) <= 1
        /\ \A p \in RPids : rprocs[p] = "alive" => p = server_info

\* C34: whenever no start_sandbox is in flight, every live worker process
\* the service has spawned is the recorded pid of a registered sandbox.
C34_EveryLiveWorkerIsRecorded ==
    (\A i \in Ids : calls[i].pc = "idle") =>
        \A p \in Pids :
            Alive(p) => \E i \in DOMAIN worktrees : worktrees[i].pid = p

\* C35: two sandboxes of different ids that are registered at the same
\* time, each by a start_sandbox that has returned, have different ports,
\* however the steps of the two calls were interleaved.
C35_ConcurrentStartsGetDifferentPorts ==
    \A i, j \in DOMAIN worktrees :
        (i # j /\ calls[i].pc = "idle" /\ calls[j].pc = "idle") =>
            worktrees[i].port # worktrees[j].port

\* C36: while a start_sandbox for an id that had no record is in flight
\* and its readiness probe has not succeeded, no query reports the
\* sandbox as RUNNING: not get_sandbox, not list_sandboxes, not
\* find_sandbox_by_session_api_key.
C36_NotRunningBeforeReady ==
    \A i \in Ids :
        (calls[i].pc \in {"sleeping", "waiting"} /\ ~calls[i].wasReg) =>
            /\ Registered(i) => get_sandbox(i).status # "RUNNING"
            /\ \A item \in list_sandboxes :
                   item.id = i => item.status # "RUNNING"
            /\ \A order \in Orders, key \in Keys :
                   \A item \in
                     find_sandbox_by_session_api_key_result(order, key) :
                       item.id = i => item.status # "RUNNING"

====
